---- MODULE Spec2Model ----
(***************************************************************************)
(* Five9 Campaign Manager (src/app.py): the install job tracker (three     *)
(* scratch artifacts shared by every session and by the detached wrapper   *)
(* processes), the per-session campaign state, and the pure helpers        *)
(* ps_escape, parse_campaigns_json and parse_action_results.               *)
(*                                                                         *)
(* Three next-state relations over one set of variables:                   *)
(*   Spec / FairSpec  the install job: sessions' handlers and wrappers     *)
(*   SpecCampaign     one session's script runs against the external API   *)
(*   SpecPure         the pure helpers applied to enumerated inputs        *)
(***************************************************************************)
EXTENDS Integers, Sequences, FiniteSets, TLC

VARIABLES
    fs,             \* the scratch directory: artifact name -> file
    pc,             \* each session's position in its running handler
    job,            \* the install job a session's handler is starting
    wrappers,       \* each detached wrapper process's position
    accepted,       \* number of install starts accepted so far
    notice,         \* the message the most recent handler rendered
    session_state,  \* st.session_state of each session
    widgets,        \* the widget values of each session's current run
    last_call,      \* the last command handed to run_powershell_command
    unguarded,      \* history: two sessions were inside a start at once, or a
                    \* Clear removed the lock of a job still in progress
    fn,             \* pure helpers: the helper applied last
    arg,            \* pure helpers: its input
    result          \* pure helpers: its output

vars == <<fs, pc, job, wrappers, accepted, notice, session_state, widgets,
          last_call, unguarded, fn, arg, result>>

installVars == <<fs, pc, job, wrappers, accepted, unguarded>>
campaignVars == <<widgets, last_call>>
pureVars == <<fn, arg, result>>

(***************************************************************************)
(* Bounds                                                                  *)
(***************************************************************************)
MaxJobs == 2
\* the starts accepted in the behaviours checked for liveness
MaxFairJobs == 1

Sessions == {"s1", "s2"}
Jobs == 1..MaxJobs

(***************************************************************************)
(* Scratch artifacts (src/app.py 15-19).  A file is absent or holds a      *)
(* text; `by` is the install job whose code wrote it (0: nobody), kept to  *)
(* tell a job's output from an earlier job's.                              *)
(***************************************************************************)
Artifacts == <<"lock", "stdout", "stderr">>

Absent == [exists |-> FALSE, text |-> <<>>, by |-> 0]

File(text, j) == [exists |-> TRUE, text |-> text, by |-> j]

(***************************************************************************)
(* Texts.  A value that is embedded in a command (a user name, a password, *)
(* a campaign name) is a sequence of characters.  The output of a process  *)
(* is a sequence of lexemes: punctuation, string literals, integer and     *)
(* float literals, bare words and white space.                             *)
(***************************************************************************)
P(c) == [k |-> "punct", c |-> c]
S(chars) == [k |-> "string", s |-> chars]
N(n) == [k |-> "int", n |-> n]
F(n) == [k |-> "float", whole |-> n]
W(w) == [k |-> "word", w |-> w]
NewLine == [k |-> "space"]

\* str.strip() (src/app.py 53, 90-91, 114)
RECURSIVE strip(_)
strip(text) ==
    IF text = <<>> THEN text
    ELSE IF Head(text) = NewLine THEN strip(Tail(text))
    ELSE IF text[Len(text)] = NewLine THEN strip(SubSeq(text, 1, Len(text) - 1))
    ELSE text

\* what the wrapped install command prints, and the message of what it throws,
\* as Out-File writes them
InstallOutput == <<W("Installed"), NewLine>>
InstallError == <<W("Failed"), NewLine>>

(***************************************************************************)
(* get_default_state (src/app.py 163-176) and the widgets' initial values  *)
(* (src/app.py 217-220, 307-311, 329, 345-346).                            *)
(***************************************************************************)
get_default_state ==
    [campaigns_df |-> <<>>, last_stdout |-> <<>>, last_stderr |-> <<>>,
     cached_user |-> <<>>, cached_pass |-> <<>>]

DefaultWidgets ==
    [username |-> <<>>, password |-> <<>>, remember_creds |-> FALSE,
     use_cached |-> TRUE, status_choice |-> "Running", options |-> <<>>,
     selected |-> <<>>, confirm_change |-> FALSE, auto_refresh |-> TRUE]

NoCall == [kind |-> "none", user |-> <<>>, pass |-> <<>>, payload |-> <<>>,
           stdout |-> <<>>, stderr |-> <<>>, tick |-> 0]

\* a run that has rendered no message yet
NoNotice == ""

\* src/app.py 222-224: every run of the script caches the typed credentials
\* when "Remember credentials" is checked
Sidebar(ss, w) ==
    IF w.remember_creds /\ w.username # <<>> /\ w.password # <<>>
    THEN [ss EXCEPT !.cached_user = w.username, !.cached_pass = w.password]
    ELSE ss

RunSidebar(s) == [session_state EXCEPT ![s] = Sidebar(session_state[s], widgets[s])]

(***************************************************************************)
(* Python values, as json.loads produces them and as the helpers pass them *)
(* on.  A dict is its items in insertion order, keys unique.               *)
(***************************************************************************)
PyStr(chars) == [t |-> "str", s |-> chars]
PyInt(n) == [t |-> "int", n |-> n]
PyFloat(n) == [t |-> "float", whole |-> n]
PyBool(b) == [t |-> "bool", b |-> b]
PyNone == [t |-> "NoneType"]
PyList(items) == [t |-> "list", items |-> items]
PyDict(pairs) == [t |-> "dict", pairs |-> pairs]

Digit == <<"0", "1", "2", "3", "4", "5", "6", "7", "8", "9">>

RECURSIVE Decimal(_)
Decimal(n) == IF n < 10 THEN <<Digit[n + 1]>>
                        ELSE Append(Decimal(n \div 10), Digit[(n % 10) + 1])

\* str(): of a string the string itself, of a bool "True" or "False", of None
\* "None", of an int its decimal digits, of a float the digits and ".0"
py_str(v) ==
    CASE v.t = "str" -> v.s
      [] v.t = "bool" -> IF v.b THEN <<"T", "r", "u", "e">> ELSE <<"F", "a", "l", "s", "e">>
      [] v.t = "NoneType" -> <<"N", "o", "n", "e">>
      [] v.t = "int" -> IF v.n < 0 THEN <<"-">> \o Decimal(0 - v.n) ELSE Decimal(v.n)
      [] v.t = "float" -> (IF v.whole < 0 THEN <<"-">> \o Decimal(0 - v.whole)
                                          ELSE Decimal(v.whole)) \o <<".", "0">>

\* truth value of a Python value
Truthy(v) ==
    CASE v.t = "str" -> v.s # <<>>
      [] v.t = "bool" -> v.b
      [] v.t = "NoneType" -> FALSE
      [] v.t = "int" -> v.n # 0
      [] v.t = "float" -> v.whole # 0
      [] v.t = "list" -> v.items # <<>>
      [] v.t = "dict" -> v.pairs # <<>>

\* isinstance(v, int): bool is a subclass of int
IsInstanceInt(v) == v.t \in {"int", "bool"}

\* the integer a value is equal to (and hashes as) when used as a dict key
IntKey(v) == IF v.t = "bool" THEN (IF v.b THEN 1 ELSE 0) ELSE v.n

UpperCase == <<"A", "B", "C", "D", "E", "F", "G", "H", "I", "J", "K", "L", "M", "N", "O", "P", "Q", "R", "S", "T", "U", "V", "W", "X", "Y", "Z">>
LowerCase == <<"a", "b", "c", "d", "e", "f", "g", "h", "i", "j", "k", "l", "m", "n", "o", "p", "q", "r", "s", "t", "u", "v", "w", "x", "y", "z">>

\* str.lower(), a character at a time
ToLower ==
    [c \in {UpperCase[i] : i \in 1..Len(UpperCase)} |->
        LowerCase[CHOOSE i \in 1..Len(UpperCase) : UpperCase[i] = c]]

LowerChar(c) == IF c \in DOMAIN ToLower THEN ToLower[c] ELSE c

Lower(chars) == [i \in 1..Len(chars) |-> LowerChar(chars[i])]

\* dict[key] = value
RECURSIVE DictSet(_, _, _)
DictSet(pairs, key, value) ==
    IF pairs = <<>> THEN <<<<key, value>>>>
    ELSE IF pairs[1][1] = key THEN <<<<key, value>>>> \o Tail(pairs)
    ELSE <<pairs[1]>> \o DictSet(Tail(pairs), key, value)

\* dict.get(key, default)
RECURSIVE DictGet(_, _, _)
DictGet(pairs, key, default) ==
    IF pairs = <<>> THEN default
    ELSE IF pairs[1][1] = key THEN pairs[1][2]
    ELSE DictGet(Tail(pairs), key, default)

(***************************************************************************)
(* json.loads (called at src/app.py 126 and 192) over the lexemes of the   *)
(* text: a value is a literal, an array or an object, and nothing may      *)
(* follow it.                                                              *)
(***************************************************************************)
Rejected == [ok |-> FALSE, v |-> PyNone, next |-> 0]

Parsed(v, next) == [ok |-> TRUE, v |-> v, next |-> next]

IsPunct(text, i, c) == i <= Len(text) /\ text[i] = P(c)

RECURSIVE ParseValue(_, _)
RECURSIVE ParseElements(_, _, _)
RECURSIVE ParseMembers(_, _, _)

ParseValue(text, i) ==
    IF i > Len(text) THEN Rejected
    ELSE LET tok == text[i] IN
         CASE tok.k = "string" -> Parsed(PyStr(tok.s), i + 1)
           [] tok.k = "int" -> Parsed(PyInt(tok.n), i + 1)
           [] tok.k = "float" -> Parsed(PyFloat(tok.whole), i + 1)
           [] tok.k = "word" ->
                CASE tok.w = "true" -> Parsed(PyBool(TRUE), i + 1)
                  [] tok.w = "false" -> Parsed(PyBool(FALSE), i + 1)
                  [] tok.w = "null" -> Parsed(PyNone, i + 1)
                  [] OTHER -> Rejected
           [] tok.k = "punct" ->
                CASE tok.c = "[" ->
                        IF IsPunct(text, i + 1, "]") THEN Parsed(PyList(<<>>), i + 2)
                        ELSE ParseElements(text, i + 1, <<>>)
                  [] tok.c = "{" ->
                        IF IsPunct(text, i + 1, "}") THEN Parsed(PyDict(<<>>), i + 2)
                        ELSE ParseMembers(text, i + 1, <<>>)
                  [] OTHER -> Rejected

ParseElements(text, i, items) ==
    LET r == ParseValue(text, i) IN
    IF ~r.ok THEN Rejected
    ELSE IF IsPunct(text, r.next, ",") THEN ParseElements(text, r.next + 1, Append(items, r.v))
    ELSE IF IsPunct(text, r.next, "]") THEN Parsed(PyList(Append(items, r.v)), r.next + 1)
    ELSE Rejected

ParseMembers(text, i, pairs) ==
    IF ~(i <= Len(text) /\ text[i].k = "string" /\ IsPunct(text, i + 1, ":")) THEN Rejected
    ELSE LET r == ParseValue(text, i + 2) IN
         IF ~r.ok THEN Rejected
         ELSE IF IsPunct(text, r.next, ",")
              THEN ParseMembers(text, r.next + 1, DictSet(pairs, text[i].s, r.v))
         ELSE IF IsPunct(text, r.next, "}")
              THEN Parsed(PyDict(DictSet(pairs, text[i].s, r.v)), r.next + 1)
         ELSE Rejected

json_loads(text) ==
    LET r == ParseValue(text, 1) IN
    IF r.ok /\ r.next = Len(text) + 1 THEN r ELSE Rejected

(***************************************************************************)
(* ps_escape (src/app.py 41-42)                                            *)
(***************************************************************************)
\* str.replace("'", "''")
RECURSIVE ReplaceQuotes(_)
ReplaceQuotes(chars) ==
    IF chars = <<>> THEN <<>>
    ELSE (IF chars[1] = "'" THEN <<"'", "'">> ELSE <<chars[1]>>) \o ReplaceQuotes(Tail(chars))

OrEmpty(value) == IF Truthy(value) THEN value.s ELSE <<>>

ps_escape_unchanged(value) == OrEmpty(value)

ps_escape(value) == ReplaceQuotes(OrEmpty(value))

(***************************************************************************)
(* parse_campaigns_json (src/app.py 117-160).  The frame is its rows; a    *)
(* record that is no dict has no items() and the call raises.              *)
(***************************************************************************)
STATE_MAP == <<<<"N", "o", "t", "R", "u", "n", "n", "i", "n", "g">>, <<"S", "t", "a", "r", "t", "i", "n", "g">>, <<"R", "u", "n", "n", "i", "n", "g">>, <<"S", "t", "o", "p", "p", "i", "n", "g">>>>
TYPE_MAP == <<<<"I", "n", "b", "o", "u", "n", "d">>, <<"O", "u", "t", "b", "o", "u", "n", "d">>, <<"A", "u", "t", "o", "D", "i", "a", "l">>>>

\* MAP.get(key, default) for the tables above, whose keys are 0, 1, 2, ...
MapGet(map, key, default) == IF key \in 0..(Len(map) - 1) THEN map[key + 1] ELSE default

\* src/app.py 130-135 and 196-201
Records(parsed) ==
    CASE parsed.t = "dict" -> <<parsed>>
      [] parsed.t = "list" -> parsed.items
      [] OTHER -> <<>>

\* src/app.py 139
RECURSIVE LowerKeys(_, _)
LowerKeys(pairs, acc) ==
    IF pairs = <<>> THEN acc
    ELSE LowerKeys(Tail(pairs), DictSet(acc, Lower(pairs[1][1]), pairs[1][2]))

\* src/app.py 144-152
Label(map, raw) == IF IsInstanceInt(raw) THEN MapGet(map, IntKey(raw), py_str(raw))
                                         ELSE py_str(raw)

\* src/app.py 139-154
Normalize(rec) ==
    LET lower_rec == LowerKeys(rec.pairs, <<>>)
        name == DictGet(lower_rec, <<"n", "a", "m", "e">>, PyStr(<<>>))
        raw_state == DictGet(lower_rec, <<"s", "t", "a", "t", "e">>, PyStr(<<>>))
        raw_type == DictGet(lower_rec, <<"t", "y", "p", "e">>, PyStr(<<>>))
    IN  [Name |-> name, State |-> Label(STATE_MAP, raw_state),
         Type |-> Label(TYPE_MAP, raw_type)]

EmptyFrame == [raised |-> FALSE, df |-> <<>>]

parse_campaigns_json(raw_json) ==
    IF raw_json = <<>> THEN EmptyFrame
    ELSE LET loaded == json_loads(raw_json) IN
         IF ~loaded.ok THEN EmptyFrame
         ELSE LET records == Records(loaded.v) IN
              IF \E i \in 1..Len(records) : records[i].t # "dict"
              THEN [raised |-> TRUE, df |-> <<>>]
              ELSE [raised |-> FALSE,
                    df |-> [i \in 1..Len(records) |-> Normalize(records[i])]]

(***************************************************************************)
(* parse_action_results (src/app.py 187-212)                               *)
(***************************************************************************)
Unknown == <<"(", "u", "n", "k", "n", "o", "w", "n", ")">>
ParseFailure == <<"F", "a", "i", "l", "e", "d", " ", "t", "o", " ", "p", "a", "r", "s", "e", " ", "P", "o", "w", "e", "r", "S", "h", "e", "l", "l", " ", "r", "e", "s", "u", "l", "t", ".">>
UnknownError == <<"U", "n", "k", "n", "o", "w", "n", " ", "e", "r", "r", "o", "r">>

NoResults == [raised |-> FALSE, successes |-> <<>>, failures |-> <<>>]

\* src/app.py 194
DecodeFailure == [raised |-> FALSE, successes |-> <<>>,
                  failures |-> <<<<Unknown, ParseFailure>>>>]

\* src/app.py 205-210
RECURSIVE Collect(_, _)
Collect(records, acc) ==
    IF records = <<>> THEN acc
    ELSE LET record == records[1].pairs
             name == py_str(DictGet(record, <<"N", "a", "m", "e">>, PyStr(Unknown)))
             error == DictGet(record, <<"E", "r", "r", "o", "r">>, PyNone)
         IN  IF Truthy(DictGet(record, <<"S", "u", "c", "c", "e", "s", "s">>, PyNone))
             THEN Collect(Tail(records), [acc EXCEPT !.successes = Append(@, name)])
             ELSE Collect(Tail(records),
                          [acc EXCEPT !.failures =
                              DictSet(@, name, IF Truthy(error) THEN py_str(error)
                                                                ELSE UnknownError)])

OnDecodeErrorSilent(raw_json) == NoResults

\* src/app.py 193-194: the result for a text json.loads rejects
OnDecodeError(raw_json) == DecodeFailure

parse_action_results(raw_json) ==
    IF raw_json = <<>> THEN NoResults
    ELSE LET loaded == json_loads(raw_json) IN
         IF ~loaded.ok THEN OnDecodeError(raw_json)
         ELSE LET records == Records(loaded.v) IN
              IF \E i \in 1..Len(records) : records[i].t # "dict"
              THEN [raised |-> TRUE, successes |-> <<>>, failures |-> <<>>]
              ELSE Collect(records, NoResults)

(***************************************************************************)
(* get_install_status (src/app.py 87-93)                                   *)
(***************************************************************************)
get_install_status(dir) ==
    LET running == dir["lock"].exists
    IN  [running |-> running,
         stdout |-> IF dir["stdout"].exists THEN strip(dir["stdout"].text) ELSE <<>>,
         stderr |-> IF dir["stderr"].exists THEN strip(dir["stderr"].text) ELSE <<>>,
         done |-> ~running /\ (dir["stdout"].exists \/ dir["stderr"].exists)]

IdleStatus == [running |-> FALSE, stdout |-> <<>>, stderr |-> <<>>, done |-> FALSE]

StartPcs == {"reset_stdout", "reset_stderr", "write_lock", "spawn"}

Alive == {j \in Jobs : wrappers[j] \in {"spawned", "ran"}}

InStart(s) == pc[s] \in StartPcs

(***************************************************************************)
(* "Install/Update Five9 Module" (src/app.py 231-241)                      *)
(***************************************************************************)
StartRefusedNever(pre_status) == FALSE

StartRefusedWhenDone(pre_status) == pre_status["done"]

\* src/app.py 236-237: the start is refused when the status reports running
StartRefused(pre_status) == pre_status["running"]

InstallRejected(s) ==
    /\ pc[s] = "idle"
    /\ StartRefused(get_install_status(fs))
    /\ notice' = "Install already in progress."
    /\ session_state' = RunSidebar(s)
    /\ UNCHANGED <<installVars, campaignVars, pureVars>>

InstallAccepted(s) ==
    /\ pc[s] = "idle"
    /\ ~StartRefused(get_install_status(fs))
    /\ accepted < MaxJobs
    /\ accepted' = accepted + 1
    /\ job' = [job EXCEPT ![s] = accepted + 1]
    /\ pc' = [pc EXCEPT ![s] = "reset_stdout"]
    /\ unguarded' = (unguarded \/ \E t \in Sessions \ {s} : InStart(t))
    /\ notice' = NoNotice
    /\ session_state' = RunSidebar(s)
    /\ UNCHANGED <<fs, wrappers, campaignVars, pureVars>>

(***************************************************************************)
(* start_install_detached (src/app.py 56-84), one step per file written    *)
(* and one for the spawn.                                                  *)
(***************************************************************************)
\* src/app.py 59-60, first file
ResetStdout(s) ==
    /\ pc[s] = "reset_stdout"
    /\ fs' = [fs EXCEPT !["stdout"] = File(<<>>, job[s])]
    /\ pc' = [pc EXCEPT ![s] = "reset_stderr"]
    /\ UNCHANGED <<job, wrappers, accepted, notice, session_state, unguarded,
                   campaignVars, pureVars>>

\* src/app.py 59-60, second file
ResetStderr(s) ==
    /\ pc[s] = "reset_stderr"
    /\ fs' = [fs EXCEPT !["stderr"] = File(<<>>, job[s])]
    /\ pc' = [pc EXCEPT ![s] = "write_lock"]
    /\ UNCHANGED <<job, wrappers, accepted, notice, session_state, unguarded,
                   campaignVars, pureVars>>

\* src/app.py 61
WriteLock(s) ==
    /\ pc[s] = "write_lock"
    /\ fs' = [fs EXCEPT !["lock"] = File(<<W("running")>>, 0)]
    /\ pc' = [pc EXCEPT ![s] = "spawn"]
    /\ UNCHANGED <<job, wrappers, accepted, notice, session_state, unguarded,
                   campaignVars, pureVars>>

\* src/app.py 63-84 and 241: the wrapper script is written and Start-Process
\* is run; its result is not looked at, so a launch that fails leaves no
\* wrapper and the handler goes on just the same
Spawn(s) ==
    /\ pc[s] = "spawn"
    /\ \E launched \in BOOLEAN :
          wrappers' = IF launched THEN [wrappers EXCEPT ![job[s]] = "spawned"]
                                  ELSE wrappers
    /\ pc' = [pc EXCEPT ![s] = "idle"]
    /\ job' = [job EXCEPT ![s] = 0]
    /\ notice' = "Install started in background."
    /\ UNCHANGED <<fs, accepted, session_state, unguarded,
                   campaignVars, pureVars>>

(***************************************************************************)
(* The wrapper script (src/app.py 63-67), run by the detached process.     *)
(***************************************************************************)
\* try { command | Out-File stdout } catch { message | Out-File stderr }.
\* When the command throws, Out-File may or may not have opened (and so
\* emptied) the stdout artifact already.
WrapperOutcome(dir, j, ok, opened) ==
    IF ok
    THEN [dir EXCEPT !["stdout"] = File(InstallOutput, j)]
    ELSE [dir EXCEPT !["stderr"] = File(InstallError, j),
                     !["stdout"] = IF opened THEN File(<<>>, j) ELSE @]

RunCommand(j) ==
    /\ wrappers[j] = "spawned"
    /\ \E ok \in BOOLEAN, opened \in BOOLEAN :
          fs' = WrapperOutcome(fs, j, ok, opened)
    /\ wrappers' = [wrappers EXCEPT ![j] = "ran"]
    /\ UNCHANGED <<pc, job, accepted, notice, session_state, unguarded,
                   campaignVars, pureVars>>

WrapperFinallyInTry(dir) ==
    IF dir["stderr"].exists /\ dir["stderr"].text = InstallError
    THEN dir
    ELSE [dir EXCEPT !["lock"] = Absent]

\* finally { Remove-Item lock -Force -ErrorAction SilentlyContinue }
WrapperFinally(dir) == [dir EXCEPT !["lock"] = Absent]

Finally(j) ==
    /\ wrappers[j] = "ran"
    /\ fs' = WrapperFinally(fs)
    /\ wrappers' = [wrappers EXCEPT ![j] = "exited"]
    /\ UNCHANGED <<pc, job, accepted, notice, session_state, unguarded,
                   campaignVars, pureVars>>

(***************************************************************************)
(* "Check Installer Status" (src/app.py 243-258)                           *)
(***************************************************************************)
\* src/app.py 245: the two buttons are drawn only for a running or done job
ButtonsShown(status) == status["running"] \/ status["done"]

CheckStatus(s) ==
    /\ pc[s] = "idle"
    /\ ButtonsShown(get_install_status(fs))
    /\ LET status == get_install_status(fs)
           ss == Sidebar(session_state[s], widgets[s])
       IN  IF status["running"]
           THEN /\ notice' = "Install still running..."
                /\ session_state' = [session_state EXCEPT ![s] = ss]
           ELSE /\ session_state' =
                      [session_state EXCEPT
                          ![s] = [ss EXCEPT !.last_stdout = status["stdout"],
                                            !.last_stderr = status["stderr"]]]
                /\ notice' = IF status["stderr"] # <<>>
                             THEN "Module install failed."
                             ELSE "Module installed/updated."
    /\ UNCHANGED <<installVars, campaignVars, pureVars>>

(***************************************************************************)
(* "Clear Install Status" (src/app.py 259-264): for each artifact in turn, *)
(* an exists() test and then an unlink(), which raises when the file has   *)
(* gone in between; the exception ends the run.                            *)
(***************************************************************************)
ExistsPc(f) == "exists_" \o f
UnlinkPc(f) == "unlink_" \o f

\* the position after artifact number i is dealt with
AfterArtifact(i) == IF i < Len(Artifacts) THEN ExistsPc(Artifacts[i + 1]) ELSE "idle"

\* src/app.py 262
ClearTest(dir, i) == IF dir[Artifacts[i]].exists THEN UnlinkPc(Artifacts[i])
                                                 ELSE AfterArtifact(i)

\* src/app.py 264, once the loop is through
ClearNotice(at, shown) == IF at = "idle" THEN "Install status cleared." ELSE shown

ClearClick(s) ==
    /\ pc[s] = "idle"
    /\ ButtonsShown(get_install_status(fs))
    /\ pc' = [pc EXCEPT ![s] = ClearTest(fs, 1)]
    /\ notice' = ClearNotice(ClearTest(fs, 1), NoNotice)
    /\ session_state' = RunSidebar(s)
    /\ UNCHANGED <<fs, job, wrappers, accepted, unguarded,
                   campaignVars, pureVars>>

ClearExists(s) ==
    /\ \E i \in 2..Len(Artifacts) :
          /\ pc[s] = ExistsPc(Artifacts[i])
          /\ pc' = [pc EXCEPT ![s] = ClearTest(fs, i)]
          /\ notice' = ClearNotice(ClearTest(fs, i), notice)
    /\ UNCHANGED <<fs, job, wrappers, accepted, session_state, unguarded,
                   campaignVars, pureVars>>

\* src/app.py 263
ClearUnlink(s) ==
    /\ \E i \in 1..Len(Artifacts) :
          /\ pc[s] = UnlinkPc(Artifacts[i])
          /\ IF fs[Artifacts[i]].exists
             THEN /\ fs' = [fs EXCEPT ![Artifacts[i]] = Absent]
                  /\ pc' = [pc EXCEPT ![s] = AfterArtifact(i)]
                  /\ notice' = ClearNotice(AfterArtifact(i), notice)
                  /\ unguarded' =
                        (unguarded \/ (i = 1 /\ (Alive # {} \/ \E t \in Sessions : InStart(t))))
             ELSE /\ pc' = [pc EXCEPT ![s] = "idle"]
                  /\ notice' = "FileNotFoundError"
                  /\ UNCHANGED <<fs, unguarded>>
    /\ UNCHANGED <<job, wrappers, accepted, session_state, campaignVars, pureVars>>

(***************************************************************************)
(* The install job: every session's handlers and every wrapper.            *)
(***************************************************************************)
Init ==
    /\ fs = [f \in {"lock", "stdout", "stderr"} |-> Absent]
    /\ pc = [s \in Sessions |-> "idle"]
    /\ job = [s \in Sessions |-> 0]
    /\ wrappers = [j \in Jobs |-> "none"]
    /\ accepted = 0
    /\ notice = NoNotice
    /\ session_state = [s \in Sessions |-> get_default_state]
    /\ widgets = [s \in Sessions |-> DefaultWidgets]
    /\ last_call = NoCall
    /\ unguarded = FALSE
    /\ fn = "none"
    /\ arg = <<>>
    /\ result = <<>>

SessionStep(s) ==
    \/ InstallRejected(s)
    \/ InstallAccepted(s)
    \/ ResetStdout(s)
    \/ ResetStderr(s)
    \/ WriteLock(s)
    \/ Spawn(s)
    \/ CheckStatus(s)
    \/ ClearClick(s)
    \/ ClearExists(s)
    \/ ClearUnlink(s)

WrapperStep(j) == RunCommand(j) \/ Finally(j)

Next == (\E s \in Sessions : SessionStep(s)) \/ (\E j \in Jobs : WrapperStep(j))

Spec == Init /\ [][Next]_vars

\* A handler that has begun runs to its end, and a launched wrapper process
\* is scheduled until its script is through; clicks are under no obligation.
HandlerStep(s) ==
    ResetStdout(s) \/ ResetStderr(s) \/ WriteLock(s) \/ Spawn(s)
        \/ ClearExists(s) \/ ClearUnlink(s)

Fairness ==
    /\ \A s \in Sessions : WF_vars(HandlerStep(s))
    /\ \A j \in Jobs : WF_vars(WrapperStep(j))

NextFair == Next /\ accepted' <= MaxFairJobs

FairSpec == Init /\ [][NextFair]_vars /\ Fairness

(***************************************************************************)
(* Claims about the install job                                            *)
(***************************************************************************)
\* C1 as stated: at most one detached wrapper process is alive at any time.
C1_AtMostOneWrapperAlive == Cardinality(Alive) <= 1

\* C1 as amended: unless two sessions were inside a start at once, or a Clear
\* removed the lock of a job still in progress, at most one wrapper process
\* is alive (has part of its script left to run) at any time.
C1_OneWrapperWhileGuarded == ~unguarded => Cardinality(Alive) <= 1

C1_Witness ==
    /\ ~unguarded
    /\ accepted = 2
    /\ Cardinality(Alive) = 1
    /\ notice = "Install already in progress."

\* C2: a step of the install handler taken while the lock artifact exists
\* renders the warning and leaves the three artifacts, every wrapper process,
\* every handler position and the count of accepted starts as they were.
C2_RefusedStartTouchesNothing ==
    [][\A s \in Sessions :
          (fs["lock"].exists /\ (InstallRejected(s) \/ InstallAccepted(s)))
              => /\ notice' = "Install already in progress."
                 /\ fs' = fs
                 /\ wrappers' = wrappers
                 /\ pc' = pc
                 /\ accepted' = accepted]_vars

C2_Witness ==
    /\ notice = "Install already in progress."
    /\ fs["lock"].exists
    /\ fs["stdout"].exists
    /\ Alive # {}

\* C3: once "Install status cleared." is the message shown (a Clear ran to
\* its end and no handler has rendered since) and no handler is in progress,
\* get_install_status reports the idle status.
C3_ClearYieldsIdle ==
    (notice = "Install status cleared." /\ \A s \in Sessions : pc[s] = "idle")
        => get_install_status(fs) = IdleStatus

\* C4: once the wrapper of an accepted start is launched, the lock artifact
\* is eventually absent, whether the install command succeeds or throws.
C4_LockEventuallyRemoved ==
    \A j \in Jobs : (wrappers[j] = "spawned") ~> ~fs["lock"].exists

C4_Witness ==
    \E j \in Jobs :
        /\ wrappers[j] = "exited"
        /\ fs["stderr"] = File(InstallError, j)
        /\ ~fs["lock"].exists

\* C10: whenever get_install_status reports done (read with no handler in
\* progress), each output artifact that exists was written by the most
\* recently accepted install start.
C10_DoneOutputsAreLatest ==
    (get_install_status(fs)["done"] /\ \A s \in Sessions : pc[s] = "idle") =>
        \A f \in {"stdout", "stderr"} : fs[f].exists => fs[f].by = accepted

(***************************************************************************)
(* json.dumps of the selected names and its escaping (src/app.py 369)      *)
(***************************************************************************)
RECURSIVE JsonEscape(_)
JsonEscape(chars) ==
    IF chars = <<>> THEN <<>>
    ELSE (IF chars[1] \in {"\"", "\\"} THEN <<"\\", chars[1]>> ELSE <<chars[1]>>)
             \o JsonEscape(Tail(chars))

json_dumps_item(v) ==
    CASE v.t = "str" -> <<"\"">> \o JsonEscape(v.s) \o <<"\"">>
      [] v.t = "bool" -> IF v.b THEN <<"t", "r", "u", "e">> ELSE <<"f", "a", "l", "s", "e">>
      [] v.t = "NoneType" -> <<"n", "u", "l", "l">>
      [] OTHER -> py_str(v)

RECURSIVE JoinItems(_)
JoinItems(items) ==
    IF items = <<>> THEN <<>>
    ELSE IF Len(items) = 1 THEN json_dumps_item(items[1])
    ELSE json_dumps_item(items[1]) \o <<",", " ">> \o JoinItems(Tail(items))

json_dumps(items) == <<"[">> \o JoinItems(items) \o <<"]">>

safe_campaigns_json(selected_campaigns) == ps_escape(PyStr(json_dumps(selected_campaigns)))

(***************************************************************************)
(* The pure helpers applied to enumerated inputs.                          *)
(***************************************************************************)
\* longest value escaped, longest text of lexemes enumerated in full,
\* largest numeric state or type code
MaxLen == 3
MaxTokens == 4
MaxCode == 4

Strings(alphabet, n) == UNION {[1..k -> alphabet] : k \in 0..n}

CharAlphabet == {"a", "'", "\""}

EscapeInputs == {PyStr(c) : c \in Strings(CharAlphabet, MaxLen)} \cup {PyNone}

NameInputs ==
    Strings({PyStr(<<"a">>), PyStr(<<"'">>), PyStr(<<"a", "'", "b">>), PyStr(<<"\"">>)}, 2)

KeySpellings ==
    {<<<<"N", "a", "m", "e">>, <<"S", "t", "a", "t", "e">>, <<"T", "y", "p", "e">>>>, <<<<"n", "a", "m", "e">>, <<"s", "t", "a", "t", "e">>, <<"t", "y", "p", "e">>>>, <<<<"N", "A", "M", "E">>, <<"S", "T", "A", "T", "E">>, <<"T", "Y", "P", "E">>>>}

FieldLiterals ==
    {N(c) : c \in 0..MaxCode}
        \cup {F(2), S(<<"R", "u", "n", "n", "i", "n", "g">>), S(<<"r", "u", "n", "n", "i", "n", "g">>), S(<<>>), W("true"), W("false"), W("null")}

ObjectText(keys, name, state, type) ==
    <<P("{"), S(keys[1]), P(":"), name, P(","), S(keys[2]), P(":"), state, P(","),
      S(keys[3]), P(":"), type, P("}")>>

CampaignInputs ==
    LET objects == {ObjectText(k, S(<<"A">>), s, t) :
                        k \in KeySpellings, s \in FieldLiterals, t \in FieldLiterals}
    IN  objects
            \cup {<<P("[")>> \o o \o <<P("]")>> : o \in objects}
            \cup {<<>>, <<W("garbage")>>, <<P("["), P("]")>>, <<P("["), N(1), P("]")>>,
                  <<P("{"), S(<<"N", "a", "m", "e">>), P(":"), S(<<"B">>), P("}")>>}

ResultAlphabet ==
    {P("["), P("]"), P("{"), P("}"), P(","), P(":"), S(<<"S", "u", "c", "c", "e", "s", "s">>), W("true"), W("oops")}

ResultText(name, success, error) ==
    <<P("{"), S(<<"N", "a", "m", "e">>), P(":"), name, P(","), S(<<"S", "u", "c", "c", "e", "s", "s">>), P(":"), success, P(","),
      S(<<"E", "r", "r", "o", "r">>), P(":"), error, P("}")>>

ResultInputs ==
    Strings(ResultAlphabet, MaxTokens)
        \cup {<<P("[")>> \o ResultText(S(<<"A">>), W("true"), W("null")) \o <<P(",")>>
                  \o ResultText(S(<<"B">>), W("false"), S(<<"b", "u", "s", "y">>)) \o <<P("]")>>,
              ResultText(S(<<"A">>), W("false"), W("null")),
              ResultText(N(7), N(1), S(<<>>)),
              ResultText(S(<<"A">>), W("true"), W("null")) \o <<W("oops")>>}

(***************************************************************************)
(* One session's script runs against the external API (src/app.py          *)
(* 215-229 and 266-419).  A run takes the widget values, runs the sidebar, *)
(* a clicked button's handler, and draws the panels.                       *)
(***************************************************************************)
\* src/app.py 179-184
get_effective_credentials(username, password, use_cached, ss) ==
    IF username # <<>> /\ password # <<>> THEN <<username, password>>
    ELSE IF use_cached /\ ss.cached_user # <<>> /\ ss.cached_pass # <<>>
         THEN <<ss.cached_user, ss.cached_pass>>
    ELSE <<username, password>>

Effective(w, ss) == get_effective_credentials(w.username, w.password, w.use_cached, ss)

\* src/app.py 313-328: the names the multiselect offers
IsRunning(row) == Lower(row.State) = <<"r", "u", "n", "n", "i", "n", "g">>

CampaignOptions(df, status_choice) ==
    LET filtered_df == IF status_choice = "Running"
                       THEN SelectSeq(df, IsRunning)
                       ELSE SelectSeq(df, LAMBDA row : ~IsRunning(row))
    IN  [i \in 1..Len(filtered_df) |-> filtered_df[i].Name]

\* src/app.py 329: a multiselect drawn with other options than before is a
\* new widget and starts with nothing selected
Draw(w, df) ==
    LET campaign_options == CampaignOptions(df, w.status_choice)
    IN  [w EXCEPT !.options = campaign_options,
                  !.selected = IF campaign_options = w.options THEN w.selected ELSE <<>>]

action_enabled_unconfirmed(w, ss) ==
    w.selected # <<>> /\ Effective(w, ss)[1] # <<>> /\ Effective(w, ss)[2] # <<>>

\* src/app.py 347-348
action_enabled(w, ss) ==
    /\ w.confirm_change
    /\ w.selected # <<>>
    /\ Effective(w, ss)[1] # <<>>
    /\ Effective(w, ss)[2] # <<>>

\* src/app.py 96-114: the command handed to the interpreter, with what the
\* call returns of what the interpreter's process wrote; tick tells a call
\* from the one before it
run_powershell_command(kind, username, password, payload, written, tick) ==
    [kind |-> kind, user |-> ps_escape(PyStr(username)), pass |-> ps_escape(PyStr(password)),
     payload |-> payload, stdout |-> strip(written[1]), stderr |-> strip(written[2]),
     tick |-> tick]

MergeFrame(old, new) == old \o new

\* src/app.py 291 and 419: the fetched frame takes the place of the old one
ReplaceFrame(old, new) == new

\* src/app.py 286-291 and 416-419
StoreListing(ss, call) ==
    LET kept == [ss EXCEPT !.last_stdout = call.stdout, !.last_stderr = call.stderr]
        frame == parse_campaigns_json(call.stdout)
    IN  IF call.stderr # <<>> \/ frame.raised THEN kept
        ELSE [kept EXCEPT !.campaigns_df = ReplaceFrame(ss.campaigns_df, frame.df)]

\* the session the campaign runs are followed for
Operator == "s1"

Usernames == {<<>>, <<"u", "'">>}
Passwords == {<<>>, <<"p">>}

CampaignA(state) == ObjectText(<<<<"N", "a", "m", "e">>, <<"S", "t", "a", "t", "e">>, <<"T", "y", "p", "e">>>>, S(<<"A">>), S(state), S(<<"I", "n", "b", "o", "u", "n", "d">>))
CampaignB(state) == ObjectText(<<<<"N", "a", "m", "e">>, <<"S", "t", "a", "t", "e">>, <<"T", "y", "p", "e">>>>, S(<<"B", "'">>), S(state), S(<<"O", "u", "t", "b", "o", "u", "n", "d">>))

\* what the listing command can print: nothing, text that is no JSON, one
\* campaign, several campaigns
ListingStdouts ==
    {<<>>, <<W("Warning"), NewLine>>, CampaignA(<<"R", "u", "n", "n", "i", "n", "g">>) \o <<NewLine>>,
     <<P("[")>> \o CampaignA(<<"N", "o", "t", "R", "u", "n", "n", "i", "n", "g">>) \o <<P(",")>> \o CampaignB(<<"R", "u", "n", "n", "i", "n", "g">>)
         \o <<P("]"), NewLine>>}

ActionStdouts ==
    {ResultText(S(<<"A">>), W("true"), W("null")) \o <<NewLine>>}

Stderrs == {<<>>, <<W("Denied"), NewLine>>}

RECURSIVE SubSeqs(_)
SubSeqs(seq) ==
    IF seq = <<>> THEN {<<>>}
    ELSE LET rest == SubSeqs(Tail(seq)) IN rest \cup {<<seq[1]>> \o r : r \in rest}

\* the widget values after one widget is changed by the user
Edits(w) ==
    {[w EXCEPT !.username = u] : u \in Usernames}
        \cup {[w EXCEPT !.password = p] : p \in Passwords}
        \cup {[w EXCEPT !.remember_creds = ~@], [w EXCEPT !.use_cached = ~@],
              [w EXCEPT !.confirm_change = ~@], [w EXCEPT !.auto_refresh = ~@],
              [w EXCEPT !.status_choice = IF @ = "Running" THEN "Otherwise" ELSE "Running"]}
        \cup {[w EXCEPT !.selected = sel] : sel \in SubSeqs(w.options)}

unchangedInstall == <<fs, job, wrappers, accepted, unguarded>>

\* a widget is changed: the script runs with no button clicked
EditWidget(s) ==
    /\ pc[s] = "idle"
    /\ \E w \in Edits(widgets[s]) \ {widgets[s]} :
          LET ss == Sidebar(session_state[s], w) IN
          /\ session_state' = [session_state EXCEPT ![s] = ss]
          /\ widgets' = [widgets EXCEPT ![s] = Draw(w, ss.campaigns_df)]
    /\ notice' = NoNotice
    /\ UNCHANGED <<pc, last_call, unchangedInstall, pureVars>>

\* src/app.py 225-229
ClearCachedCredentials(s) ==
    /\ pc[s] = "idle"
    /\ LET ss == Sidebar(session_state[s], widgets[s]) IN
          /\ ss.cached_user # <<>> /\ ss.cached_pass # <<>>
          /\ session_state' = [session_state EXCEPT
                                  ![s] = [ss EXCEPT !.cached_user = <<>>, !.cached_pass = <<>>]]
          /\ widgets' = [widgets EXCEPT ![s] = Draw(@, ss.campaigns_df)]
    /\ notice' = "Cached credentials cleared."
    /\ UNCHANGED <<pc, last_call, unchangedInstall, pureVars>>

\* src/app.py 266-269
GetCampaignStatusNoCredentials(s) ==
    /\ pc[s] = "idle"
    /\ LET ss == Sidebar(session_state[s], widgets[s])
           eff == Effective(widgets[s], ss)
       IN  /\ eff[1] = <<>> \/ eff[2] = <<>>
           /\ session_state' = [session_state EXCEPT ![s] = ss]
           /\ widgets' = [widgets EXCEPT ![s] = Draw(@, ss.campaigns_df)]
    /\ notice' = "Enter username and password before fetching campaigns."
    /\ UNCHANGED <<pc, last_call, unchangedInstall, pureVars>>

ListingNotice(ss, call) ==
    IF call.stderr # <<>> THEN "Failed to fetch campaigns."
    ELSE IF ss.campaigns_df = <<>> THEN "No campaigns returned." ELSE NoNotice

\* src/app.py 266-293
GetCampaignStatus(s) ==
    /\ pc[s] = "idle"
    /\ LET ss == Sidebar(session_state[s], widgets[s])
           eff == Effective(widgets[s], ss)
       IN  /\ eff[1] # <<>> /\ eff[2] # <<>>
           /\ \E stdout \in ListingStdouts, stderr \in Stderrs :
                 LET call == run_powershell_command("fetch", eff[1], eff[2], <<>>,
                                                    <<stdout, stderr>>, 1 - last_call.tick)
                     fetched == StoreListing(ss, call)
                 IN  /\ last_call' = call
                     /\ session_state' = [session_state EXCEPT ![s] = fetched]
                     /\ widgets' = [widgets EXCEPT ![s] = Draw(@, fetched.campaigns_df)]
                     /\ notice' = ListingNotice(fetched, call)
    /\ UNCHANGED <<pc, unchangedInstall, pureVars>>

\* src/app.py 400: whether the handler goes on to refresh the listing
AfterAction(w, eff) ==
    IF w.auto_refresh /\ eff[1] # <<>> /\ eff[2] # <<>> THEN "refresh" ELSE "idle"

\* src/app.py 360-364: the button was enabled when it was drawn; the run it
\* starts finds no credentials or nothing selected (the listing has changed
\* since) and sends no command
ActionRefused(s) ==
    /\ pc[s] = "idle"
    /\ action_enabled(widgets[s], session_state[s])
    /\ LET ss == Sidebar(session_state[s], widgets[s])
           w == Draw(widgets[s], ss.campaigns_df)
           eff == Effective(w, ss)
       IN  /\ eff[1] = <<>> \/ eff[2] = <<>> \/ w.selected = <<>>
           /\ notice' = IF eff[1] = <<>> \/ eff[2] = <<>>
                        THEN "Enter username and password before running actions."
                        ELSE "Select at least one campaign."
           /\ session_state' = [session_state EXCEPT ![s] = ss]
           /\ widgets' = [widgets EXCEPT ![s] = w]
    /\ UNCHANGED <<pc, last_call, unchangedInstall, pureVars>>

\* src/app.py 360-398
ActionCall(s) ==
    /\ pc[s] = "idle"
    /\ action_enabled(widgets[s], session_state[s])
    /\ LET ss == Sidebar(session_state[s], widgets[s])
           w == Draw(widgets[s], ss.campaigns_df)
           eff == Effective(w, ss)
       IN  /\ eff[1] # <<>> /\ eff[2] # <<>> /\ w.selected # <<>>
           /\ \E stdout \in ActionStdouts, stderr \in Stderrs :
                 LET call == run_powershell_command("action", eff[1], eff[2],
                                                    safe_campaigns_json(w.selected),
                                                    <<stdout, stderr>>, 1 - last_call.tick)
                 IN  /\ last_call' = call
                     /\ session_state' = [session_state EXCEPT
                                             ![s] = [ss EXCEPT !.last_stdout = call.stdout,
                                                               !.last_stderr = call.stderr]]
                     /\ notice' = IF call.stderr # <<>> THEN "Action failed."
                                  ELSE "Action results shown."
           /\ widgets' = [widgets EXCEPT ![s] = w]
           /\ pc' = [pc EXCEPT ![s] = AfterAction(w, eff)]
    /\ UNCHANGED <<unchangedInstall, pureVars>>

\* src/app.py 400-419; the panels were drawn before the handler ran
AutoRefresh(s) ==
    /\ pc[s] = "refresh"
    /\ LET ss == session_state[s]
           eff == Effective(widgets[s], ss)
       IN  \E stdout \in ListingStdouts, stderr \in Stderrs :
              LET call == run_powershell_command("refresh", eff[1], eff[2], <<>>,
                                                 <<stdout, stderr>>, 1 - last_call.tick)
              IN  /\ last_call' = call
                  /\ session_state' = [session_state EXCEPT ![s] = StoreListing(ss, call)]
    /\ pc' = [pc EXCEPT ![s] = "idle"]
    /\ UNCHANGED <<widgets, notice, unchangedInstall, pureVars>>

NextCampaign ==
    \/ EditWidget(Operator)
    \/ ClearCachedCredentials(Operator)
    \/ GetCampaignStatusNoCredentials(Operator)
    \/ GetCampaignStatus(Operator)
    \/ ActionRefused(Operator)
    \/ ActionCall(Operator)
    \/ AutoRefresh(Operator)

SpecCampaign == Init /\ [][NextCampaign]_vars

(***************************************************************************)
(* Claims about the campaign runs                                          *)
(***************************************************************************)
Issued(kinds) == last_call' # last_call /\ last_call'.kind \in kinds

\* C5: a step that makes a list or auto-refresh call leaves last_stdout and
\* last_stderr holding that call's output, and the campaign set equal to the
\* records parsed from its stdout when its stderr is empty, unchanged
\* otherwise.
C5_ListingReplacesCampaigns ==
    [][Issued({"fetch", "refresh"}) =>
          LET before == session_state[Operator]
              after == session_state'[Operator]
          IN  /\ after.last_stdout = last_call'.stdout
              /\ after.last_stderr = last_call'.stderr
              /\ after.campaigns_df =
                    IF last_call'.stderr = <<>>
                    THEN parse_campaigns_json(last_call'.stdout).df
                    ELSE before.campaigns_df]_vars

C5_Witness ==
    /\ last_call.kind = "refresh"
    /\ last_call.stderr = <<>>
    /\ Len(session_state[Operator].campaigns_df) = 1
    /\ widgets[Operator].options = <<PyStr(<<"B", "'">>)>>

\* C6: a step that sends a bulk start/stop command is taken with the
\* confirmation checked, at least one campaign selected and a non-empty
\* effective user name and password.
C6_ActionNeedsConfirmation ==
    [][Issued({"action"}) =>
          LET w == widgets'[Operator]
              eff == Effective(w, session_state'[Operator])
          IN  /\ w.confirm_change
              /\ w.selected # <<>>
              /\ eff[1] # <<>>
              /\ eff[2] # <<>>]_vars

C6_Witness ==
    /\ last_call.kind = "action"
    /\ widgets[Operator].username = <<>>
    /\ widgets[Operator].use_cached
    /\ session_state[Operator].cached_user # <<>>
    /\ Len(widgets[Operator].selected) = 1

InitPure ==
    /\ fs = [f \in {"lock", "stdout", "stderr"} |-> Absent]
    /\ pc = [s \in Sessions |-> "idle"]
    /\ job = [s \in Sessions |-> 0]
    /\ wrappers = [j \in Jobs |-> "none"]
    /\ accepted = 0
    /\ notice = NoNotice
    /\ session_state = [s \in Sessions |-> get_default_state]
    /\ widgets = [s \in Sessions |-> DefaultWidgets]
    /\ last_call = NoCall
    /\ unguarded = FALSE
    /\ result = <<>>
    /\ \/ fn = "value" /\ arg \in EscapeInputs
       \/ fn = "names" /\ arg \in NameInputs
       \/ fn = "campaigns" /\ arg \in CampaignInputs
       \/ fn = "results" /\ arg \in ResultInputs

ApplyPsEscape ==
    /\ fn = "value"
    /\ fn' = "ps_escape"
    /\ result' = ps_escape(arg)
    /\ UNCHANGED <<arg, installVars, campaignVars, notice, session_state>>

ApplySafeCampaignsJson ==
    /\ fn = "names"
    /\ fn' = "safe_campaigns_json"
    /\ result' = safe_campaigns_json(arg)
    /\ UNCHANGED <<arg, installVars, campaignVars, notice, session_state>>

ApplyParseCampaigns ==
    /\ fn = "campaigns"
    /\ fn' = "parse_campaigns_json"
    /\ result' = parse_campaigns_json(arg)
    /\ UNCHANGED <<arg, installVars, campaignVars, notice, session_state>>

ApplyParseActionResults ==
    /\ fn = "results"
    /\ fn' = "parse_action_results"
    /\ result' = parse_action_results(arg)
    /\ UNCHANGED <<arg, installVars, campaignVars, notice, session_state>>

NextPure ==
    \/ ApplyPsEscape
    \/ ApplySafeCampaignsJson
    \/ ApplyParseCampaigns
    \/ ApplyParseActionResults

SpecPure == InitPure /\ [][NextPure]_vars

(***************************************************************************)
(* Claims about the pure helpers                                           *)
(***************************************************************************)
\* how a single-quoted literal is read back: a doubled quote is one quote,
\* a quote on its own ends the literal
RECURSIVE ReadQuoted(_, _)
ReadQuoted(chars, value) ==
    IF chars = <<>> THEN [ended_early |-> FALSE, value |-> value]
    ELSE IF chars[1] # "'" THEN ReadQuoted(Tail(chars), Append(value, chars[1]))
    ELSE IF Len(chars) >= 2 /\ chars[2] = "'"
         THEN ReadQuoted(Tail(Tail(chars)), Append(value, "'"))
    ELSE [ended_early |-> TRUE, value |-> value]

ReadsBackAs(escaped, original) ==
    ReadQuoted(escaped, <<>>) = [ended_early |-> FALSE, value |-> original]

\* C9: every value ps_escape returns, for a user name or password and for
\* the JSON text of a list of campaign names, reads back between single
\* quotes without ending the literal early, as the original value.
C9_EscapeRoundTrip ==
    /\ fn = "ps_escape" => ReadsBackAs(result, IF arg.t = "str" THEN arg.s ELSE <<>>)
    /\ fn = "safe_campaigns_json" => ReadsBackAs(result, json_dumps(arg))

C9_Witness ==
    /\ fn = "safe_campaigns_json"
    /\ Len(arg) = 2
    /\ arg[1] = PyStr(<<"a", "'", "b">>)
    /\ Len(result) > Len(json_dumps(arg))

Undecodable(text) == ~json_loads(text).ok

C7_SingleUnknownFailure(r) ==
    /\ ~r.raised
    /\ r.successes = <<>>
    /\ Len(r.failures) = 1
    /\ r.failures[1][1] = <<"(", "u", "n", "k", "n", "o", "w", "n", ")">>
    /\ r.failures[1][2] # <<>>

\* C7 as stated: for every text that is not valid JSON, parse_action_results
\* returns no successes and exactly one failure, keyed "(unknown)", with a
\* non-empty message.
C7_InvalidJsonYieldsFailure ==
    (fn = "parse_action_results" /\ Undecodable(arg)) => C7_SingleUnknownFailure(result)

\* C7 as amended: the same for every non-empty text that is not valid JSON
\* (the empty text yields no successes and no failures).
C7_NonEmptyInvalidJsonYieldsFailure ==
    (fn = "parse_action_results" /\ Undecodable(arg) /\ arg # <<>>)
        => C7_SingleUnknownFailure(result)

C7_Witness ==
    /\ fn = "parse_action_results"
    /\ Len(arg) > MaxTokens
    /\ Undecodable(arg)
    /\ C7_SingleUnknownFailure(result)

C8_StateTable == <<<<"N", "o", "t", "R", "u", "n", "n", "i", "n", "g">>, <<"S", "t", "a", "r", "t", "i", "n", "g">>, <<"R", "u", "n", "n", "i", "n", "g">>, <<"S", "t", "o", "p", "p", "i", "n", "g">>>>
C8_TypeTable == <<<<"I", "n", "b", "o", "u", "n", "d">>, <<"O", "u", "t", "b", "o", "u", "n", "d">>, <<"A", "u", "t", "o", "D", "i", "a", "l">>>>

\* the claim's output for a raw value: a numeric code through the table, any
\* other value as its own string form
C8_Claimed(table, raw) ==
    IF raw.t = "int" /\ raw.n \in 0..(Len(table) - 1) THEN table[raw.n + 1] ELSE py_str(raw)

C8_Field(rec, key) == DictGet(LowerKeys(rec.pairs, <<>>), key, PyStr(<<>>))

\* C8: for every text that decodes to campaign records, parse_campaigns_json
\* does not raise and gives each record's State and Type as the claim has
\* them: a numeric code in the table as its label, any other numeric code
\* and any string, boolean or null as its own string form.
C8_CodesMapped ==
    (fn = "parse_campaigns_json" /\ json_loads(arg).ok) =>
        LET records == Records(json_loads(arg).v) IN
        (\A i \in 1..Len(records) : records[i].t = "dict") =>
            /\ ~result.raised
            /\ Len(result.df) = Len(records)
            /\ \A i \in 1..Len(records) :
                  /\ result.df[i].State = C8_Claimed(C8_StateTable, C8_Field(records[i], <<"s", "t", "a", "t", "e">>))
                  /\ result.df[i].Type = C8_Claimed(C8_TypeTable, C8_Field(records[i], <<"t", "y", "p", "e">>))

====
